---- MODULE Spec2Model ----
(***************************************************************************)
(* A model of jopetty/subtext: the LUT trainer (lut_trainer/create_lut.py) *)
(* and the vibe trainer (vibe_trainer/run.py with the dark_academia and    *)
(* template algorithms).                                                   *)
(*                                                                         *)
(* Three specifications share the variables below:                         *)
(*   SpecGrid  - the (degree, lambda) grid search of create_lut.main       *)
(*   SpecCalls - the pure functions, each applied to inputs drawn from     *)
(*               bounded sets                                              *)
(*   SpecRun   - one run of create_lut.main or of run.main over a dataset  *)
(*               directory                                                 *)
(*                                                                         *)
(* Python's None is the empty tuple <<>>; a float is an integer at a       *)
(* stated scale.                                                           *)
(***************************************************************************)
EXTENDS Integers, Sequences, FiniteSets, TLC

VARIABLES
  \* --- create_lut.main, grid search (lines 235-280)
  pc,            \* position in main
  max_degree,    \* create_lut.py:205
  lambdas,       \* create_lut.py:207
  has_val,       \* bool(val_loaded), create_lut.py:245
  degree,        \* loop variable of create_lut.py:238
  lam_i,         \* number of lambdas of the current degree already evaluated
  exps,          \* create_lut.py:239
  best,          \* create_lut.py:235
  best_payload,  \* create_lut.py:236
  selected,      \* (degree, lam) read at create_lut.py:279-280
  evaluated,     \* history: the candidates fitted and scored so far, in order
  best_at,       \* history: the index in evaluated of the retained candidate
  \* --- a call of one function
  fn,            \* the function called
  args,          \* its arguments
  ret,           \* what it returned (and the locals a claim reads)
  \* --- one run of create_lut.main or of run.main
  program,            \* "create_lut" or "run"
  is_dir,             \* dataset_dir.exists() and dataset_dir.is_dir()
  dataset_dir,        \* the names of the files of the dataset directory at start
  algorithm,          \* args.algorithm, run.py:203
  custom_module,      \* what dataset_dir/algorithm.py holds, run.py:239
  pairs,              \* create_lut.py:209
  samples,            \* run.py:214
  selected_algorithm, \* run.py:226
  sample_i,           \* number of samples the inference loop has finished
  prediction,         \* pred of the current sample, run.py:274-284
  per_image_metrics,  \* create_lut.py:282, run.py:270
  written,            \* the files written so far, in order
  raised,             \* the exception that ended the run, "" if none
  preds               \* history: every prediction of the run, in order

gridVars == <<pc, max_degree, lambdas, has_val, degree, lam_i, exps, best,
              best_payload, selected, evaluated, best_at>>

callVars == <<fn, args, ret>>

runVars == <<program, is_dir, dataset_dir, algorithm, custom_module, pairs, samples,
             selected_algorithm, sample_i, prediction, per_image_metrics, written, raised,
             preds>>

vars == <<gridVars, callVars, runVars>>

----------------------------------------------------------------------------
(* Bounds *)

\* The grid has at most MaxCandidates (degree, lambda) pairs
MaxCandidates == 4

\* build_exponents is called with max_degree in 0..MaxBasisDegree
MaxBasisDegree == 4
\* The values of a channel inside [0,1] are k / MaxLevel, k in 0..MaxLevel
MaxLevel == 2
\* The images that are cropped have 1..MaxSide rows and 1..MaxSide columns
MaxSide == 4
\* crop_inner_region is applied to images of 1..MaxCropSide rows and columns
MaxCropSide == 20
\* maybe_subsample is given 1..MaxSamples rows
MaxSamples == 5

\* A channel value v stands for the float v / Scale: an image decoded by load_rgb
\* holds exactly the values 0/255 .. 255/255
Scale == 255

\* The candidate ridge strengths: two distinct float values, in order.
LambdaVals == {1, 2}
\* The values an error metric (MAE or RMSE) takes: two distinct floats, in order.
ErrLevels == {0, 1}

NoneVal == <<>>

----------------------------------------------------------------------------
(* Helpers *)

Min2(a, b) == IF a <= b THEN a ELSE b
Max2(a, b) == IF a >= b THEN a ELSE b

\* range(lo, hi, -1) style descending list hi, hi-1, ..., lo as a sequence
Descending(hi, lo) == [k \in 1..(hi - lo + 1) |-> hi - k + 1]

RECURSIVE Concat(_)
Concat(ss) == IF ss = <<>> THEN <<>> ELSE Head(ss) \o Concat(Tail(ss))

SeqsUpTo(S, n) == UNION {[1..k -> S] : k \in 1..n}

----------------------------------------------------------------------------
(* Feature Expander *)

\* a in range(deg, 0, -1): the triples with a = 0 are left out
build_exponents_skip_a0(D) ==
  Concat([d1 \in 1..(D + 1) |->
    LET deg == d1 - 1 IN
    Concat([ai \in 1..deg |->
      LET a == Descending(deg, 1)[ai] IN
      [bi \in 1..(deg - a + 1) |->
        LET b == Descending(deg - a, 0)[bi] IN <<a, b, deg - a - b>>]])])

\* create_lut.py:47-54: for deg in 0..max_degree, for a in deg..0, for b in deg-a..0
build_exponents(D) ==
  Concat([d1 \in 1..(D + 1) |->
    LET deg == d1 - 1 IN
    Concat([ai \in 1..(deg + 1) |->
      LET a == Descending(deg, 0)[ai] IN
      [bi \in 1..(deg - a + 1) |->
        LET b == Descending(deg - a, 0)[bi] IN <<a, b, deg - a - b>>]])])

----------------------------------------------------------------------------
(* Model Selector: create_lut.main lines 235-280 *)

\* Python's tuple comparison s < b: the first differing position decides
RECURSIVE tuple_less(_, _)
tuple_less(s, b) ==
  IF s = <<>> THEN b # <<>>
  ELSE IF b = <<>> THEN FALSE
  ELSE IF Head(s) # Head(b) THEN Head(s) < Head(b)
  ELSE tuple_less(Tail(s), Tail(b))

replaces_best_rmse_only(score, cur) == cur = NoneVal \/ score[1] < cur[1]

replaces_best_or_equal(score, cur) == cur = NoneVal \/ ~tuple_less(cur, score)

\* create_lut.py:261
replaces_best(score, cur) == cur = NoneVal \/ tuple_less(score, cur)

\* create_lut.py:245-259: the score of a candidate from its metrics
score_of(train_mae, train_rmse, val_mae, val_rmse, n_exps, lam) ==
  IF has_val THEN <<val_rmse, val_mae, n_exps, lam>>
  ELSE <<train_rmse, train_mae, n_exps, lam>>

degrees_done_one_short == degree >= max_degree - 1

\* create_lut.py:238 exhausted
degrees_done == degree >= max_degree

\* create_lut.py:238-239: the next degree of range(1, max_degree + 1)
DegreeLoop ==
  /\ pc = "degree_loop"
  /\ ~degrees_done
  /\ degree' = degree + 1
  /\ exps' = build_exponents(degree + 1)
  /\ lam_i' = 0
  /\ pc' = "lambda_loop"
  /\ UNCHANGED <<max_degree, lambdas, has_val, best, best_payload, selected, evaluated,
                 best_at>>
  /\ UNCHANGED <<callVars, runVars>>

\* create_lut.py:240-273: fit and score the next lambda of the current degree
EvaluateCandidate ==
  /\ pc = "lambda_loop"
  /\ lam_i < Len(lambdas)
  /\ \E train_mae \in ErrLevels, train_rmse \in ErrLevels,
        v_mae \in ErrLevels, v_rmse \in ErrLevels :
       LET lam == lambdas[lam_i + 1]
           val_mae == IF has_val THEN v_mae ELSE train_mae
           val_rmse == IF has_val THEN v_rmse ELSE train_rmse
           score == score_of(train_mae, train_rmse, val_mae, val_rmse, Len(exps), lam)
       IN /\ IF replaces_best(score, best)
             THEN /\ best' = score
                  /\ best_payload' = [degree |-> degree, lambda |-> lam,
                                      train_mae |-> train_mae, train_rmse |-> train_rmse,
                                      val_mae |-> val_mae, val_rmse |-> val_rmse,
                                      num_features |-> Len(exps)]
                  /\ best_at' = Len(evaluated) + 1
             ELSE UNCHANGED <<best, best_payload, best_at>>
          /\ evaluated' = Append(evaluated,
                                 [degree |-> degree, lam_i |-> lam_i + 1, score |-> score])
  /\ lam_i' = lam_i + 1
  /\ pc' = IF lam_i + 1 = Len(lambdas) THEN "degree_loop" ELSE "lambda_loop"
  /\ UNCHANGED <<max_degree, lambdas, has_val, degree, exps, selected>>
  /\ UNCHANGED <<callVars, runVars>>

\* create_lut.py:275-280: after the loops, the assertion and the read of the selection
ReadSelection ==
  /\ pc = "degree_loop"
  /\ degrees_done
  /\ \/ /\ best_payload = NoneVal
        /\ pc' = "AssertionError"
        /\ UNCHANGED selected
     \/ /\ best_payload # NoneVal
        /\ selected' = <<best_payload.degree, best_payload.lambda>>
        /\ pc' = "selected"
  /\ UNCHANGED <<max_degree, lambdas, has_val, degree, lam_i, exps, best,
                 best_payload, evaluated, best_at>>
  /\ UNCHANGED <<callVars, runVars>>

GridStart ==
  /\ pc = "degree_loop"
  /\ degree = 0
  /\ lam_i = 0
  /\ exps = <<>>
  /\ best = NoneVal
  /\ best_payload = NoneVal
  /\ selected = NoneVal
  /\ evaluated = <<>>
  /\ best_at = 0

\* No function call is in progress
CallIdle ==
  /\ fn = "none"
  /\ args = <<>>
  /\ ret = <<>>

\* No run is in progress
RunIdle ==
  /\ program = "none"
  /\ is_dir = FALSE
  /\ dataset_dir = {}
  /\ algorithm = "none"
  /\ custom_module = "none"
  /\ pairs = <<>>
  /\ samples = <<>>
  /\ selected_algorithm = "none"
  /\ sample_i = 0
  /\ prediction = NoneVal
  /\ per_image_metrics = <<>>
  /\ written = <<>>
  /\ raised = ""
  /\ preds = <<>>

InitGrid ==
  /\ CallIdle
  /\ RunIdle
  /\ max_degree \in 0..MaxCandidates
  /\ lambdas \in SeqsUpTo(LambdaVals, MaxCandidates)
  /\ max_degree * Len(lambdas) <= MaxCandidates
  /\ has_val \in BOOLEAN
  /\ GridStart

NextGrid == DegreeLoop \/ EvaluateCandidate \/ ReadSelection

SpecGrid == InitGrid /\ [][NextGrid]_vars

----------------------------------------------------------------------------
(* Claims about the grid search *)

\* The Score Tuple order of the specification: RMSE, then MAE, then feature
\* count, then lambda
ScoreLess(s, t) ==
  \/ s[1] < t[1]
  \/ s[1] = t[1] /\ s[2] < t[2]
  \/ s[1] = t[1] /\ s[2] = t[2] /\ s[3] < t[3]
  \/ s[1] = t[1] /\ s[2] = t[2] /\ s[3] = t[3] /\ s[4] < t[4]

ScoreLeq(s, t) == s = t \/ ScoreLess(s, t)

\* The candidates of the grid, in the order degrees ascending, then the list's order
GridOrder ==
  [k \in 1..(max_degree * Len(lambdas)) |->
     <<((k - 1) \div Len(lambdas)) + 1, ((k - 1) % Len(lambdas)) + 1>>]

\* C1: once the grid search has ended, the retained candidate has the
\* lexicographically smallest Score Tuple (RMSE, MAE, feature count, lambda) of
\* all (degree, lambda) candidates of the grid: every candidate was scored, the
\* retained score is <= each of them in that order (so its RMSE is <= every
\* RMSE), and the selected degree and lambda are those of a candidate with
\* that score.
C1_SelectedIsLexMin ==
  pc = "selected" =>
    /\ \A d \in 1..max_degree, j \in 1..Len(lambdas) :
         \E i \in 1..Len(evaluated) :
           /\ evaluated[i].degree = d
           /\ evaluated[i].lam_i = j
           /\ ScoreLeq(best, evaluated[i].score)
           /\ best[1] <= evaluated[i].score[1]
    /\ \E i \in 1..Len(evaluated) :
         /\ evaluated[i].score = best
         /\ selected = <<evaluated[i].degree, lambdas[evaluated[i].lam_i]>>
         /\ best[3] = Len(build_exponents(selected[1]))
         /\ best[4] = selected[2]

\* A run where the minimum is decided by the tie-breaks: two candidates equal on
\* RMSE and MAE, the later one with more features, and a first candidate that
\* lost on RMSE
C1_Witness ==
  /\ pc = "selected"
  /\ Len(evaluated) = 4
  /\ max_degree = 2
  /\ best_at = 2
  /\ evaluated[1].score[1] > best[1]
  /\ evaluated[3].score[1] = best[1]
  /\ evaluated[3].score[2] = best[2]
  /\ evaluated[3].score[3] > best[3]

\* C5: the retained best changes only in a step whose new candidate has a Score
\* Tuple strictly less than the retained one (a later equal score never
\* replaces it), and so the candidate selected is the earliest one that
\* achieves the minimum.
C5_StrictReplacement ==
  /\ [][(best # NoneVal /\ Len(evaluated') = Len(evaluated) + 1) =>
          LET s == evaluated'[Len(evaluated')].score IN
            IF ScoreLess(s, best)
            THEN best' = s /\ best_at' = Len(evaluated')
            ELSE best' = best /\ best_payload' = best_payload /\ best_at' = best_at]_vars
  /\ [](pc = "selected" =>
          /\ best_at \in 1..Len(evaluated)
          /\ evaluated[best_at].score = best
          /\ \A i \in 1..Len(evaluated) :
               /\ ScoreLeq(best, evaluated[i].score)
               /\ evaluated[i].score = best => best_at <= i)

\* The same lambda listed twice obtains the same score twice, and the first of
\* the two is retained
C5_Witness ==
  /\ pc = "selected"
  /\ Len(evaluated) >= 2
  /\ lambdas[1] = lambdas[2]
  /\ evaluated[1].score = best
  /\ evaluated[2].score = best
  /\ best_at = 1
  /\ has_val

\* C6: the candidates are fitted and scored in the grid's order (degrees
\* ascending, within a degree the lambdas in the list's order), each pair
\* once, and the selection is read only after the last pair was scored.
C6_AllCandidatesInOrder ==
  /\ Len(evaluated) <= Len(GridOrder)
  /\ \A i \in 1..Len(evaluated) :
       <<evaluated[i].degree, evaluated[i].lam_i>> = GridOrder[i]
  /\ (pc = "selected" \/ selected # NoneVal) => Len(evaluated) = Len(GridOrder)

C6_Witness ==
  /\ selected # NoneVal
  /\ max_degree = 2
  /\ Len(lambdas) = 2
  /\ Len(evaluated) = 4
  /\ evaluated[3].degree = 2
  /\ evaluated[3].lam_i = 1

----------------------------------------------------------------------------
(* Images: an image is a sequence of rows, a row a sequence of pixels, a    *)
(* pixel a triple <<r, g, b>> of channel values at scale Scale              *)

InRangeVals == {(k * Scale) \div MaxLevel : k \in 0..MaxLevel}
\* Values a float array may hold outside [0,1]
OutOfRangeVals == {-64, 320}
PixelVals == InRangeVals \cup OutOfRangeVals

Pixels == [1..3 -> PixelVals]
SomePixels == {<<0, 0, 0>>, <<Scale, Scale, Scale>>, <<0, 128, 320>>}

OnePixelImages == {<< <<p>> >> : p \in Pixels}
WideImages == {<< <<p, q>> >> : p \in SomePixels, q \in SomePixels}
TallImages == {<< <<p>>, <<q>> >> : p \in SomePixels, q \in SomePixels}
Images == OnePixelImages \cup WideImages \cup TallImages

\* ndarray.shape
shape(img) == <<Len(img), Len(img[1]), 3>>

\* Every channel value of the image lies in [0,1]
in_unit_range(img) ==
  \A y \in 1..Len(img) : \A x \in 1..Len(img[y]) : \A c \in 1..3 :
    img[y][x][c] >= 0 /\ img[y][x][c] <= Scale

\* np.clip(v, lo, hi)
clip(v, lo, hi) == Min2(Max2(v, lo), hi)

\* img.reshape(-1, 3): the pixels in row-major order
flat_pixels(img) == Concat(img)

\* arr.reshape(-1): the channel values in row-major order
flat_values(img) == Concat(flat_pixels(img))

\* out.reshape(img.shape): the pixels back into rows of the image's width
unflatten(px, img) ==
  [y \in 1..Len(img) |-> [x \in 1..Len(img[1]) |-> px[(y - 1) * Len(img[1]) + x]]]

\* a[y0:y0 + h, x0:x0 + w]
slice(img, y0, h, x0, w) ==
  [y \in 1..h |-> [x \in 1..w |-> img[y0 + y][x0 + x]]]

RECURSIVE SumSeq(_)
SumSeq(q) == IF q = <<>> THEN 0 ELSE Head(q) + SumSeq(Tail(q))

Abs(v) == IF v < 0 THEN -v ELSE v

----------------------------------------------------------------------------
(* Metrics Engine *)

\* The crop taken from the top left corner
center_crop_pair_top_left(a, b) ==
  IF shape(a) = shape(b) THEN <<a, b>>
  ELSE LET h == Min2(Len(a), Len(b))
           w == Min2(Len(a[1]), Len(b[1]))
       IN <<slice(a, 0, h, 0, w), slice(b, 0, h, 0, w)>>

\* create_lut.py:107-116 and run.py:42-51 (the same text)
center_crop_pair(a, b) ==
  IF shape(a) = shape(b) THEN <<a, b>>
  ELSE LET h == Min2(Len(a), Len(b))
           w == Min2(Len(a[1]), Len(b[1]))
           ay == (Len(a) - h) \div 2
           ax == (Len(a[1]) - w) \div 2
           by == (Len(b) - h) \div 2
           bx == (Len(b[1]) - w) \div 2
       IN <<slice(a, ay, h, ax, w), slice(b, by, h, bx, w)>>

\* The two metrics of d, an array of differences on the 0..255 scale, as exact
\* fractions: MAE = mae_num / n and RMSE = sqrt(mse_num / n)
metrics_of_abs(d) ==
  [mae_num |-> SumSeq([i \in 1..Len(d) |-> Abs(d[i])]),
   mse_num |-> SumSeq([i \in 1..Len(d) |-> Abs(d[i])]),
   n |-> Len(d)]

\* create_lut.py:98-100 and run.py:57-59: np.mean(np.abs(d)), np.sqrt(np.mean(d * d))
metrics_of(d) ==
  [mae_num |-> SumSeq([i \in 1..Len(d) |-> Abs(d[i])]),
   mse_num |-> SumSeq([i \in 1..Len(d) |-> d[i] * d[i]]),
   n |-> Len(d)]

\* create_lut.py:96-100. (pred - tgt) * 255.0 of values v / 255 is pred - tgt
mae_rmse(pred_rgb01, tgt_rgb01) ==
  LET p == flat_values(pred_rgb01)
      t == flat_values(tgt_rgb01)
  IN metrics_of([i \in 1..Len(p) |-> p[i] - t[i]])

\* run.py:54-59
mae_rmse_run(pred, tgt) ==
  LET cropped == center_crop_pair(pred, tgt)
      p == flat_values(cropped[1])
      t == flat_values(cropped[2])
  IN metrics_of([i \in 1..Len(p) |-> p[i] - t[i]])

----------------------------------------------------------------------------
(* Feature Expander of run.py *)

\* run.py:95-102
build_exponents_run(D) ==
  Concat([d1 \in 1..(D + 1) |->
    LET deg == d1 - 1 IN
    Concat([ai \in 1..(deg + 1) |->
      LET a == Descending(deg, 0)[ai] IN
      [bi \in 1..(deg - a + 1) |->
        LET b == Descending(deg - a, 0)[bi] IN <<a, b, deg - a - b>>]])])

----------------------------------------------------------------------------
(* Intensities, coefficients and model parameters are floats in units of    *)
(* 1 / PerMille; a product is rounded down to the unit of its result        *)

PerMille == 1000

IntensityVals == {-500, 0, 250, PerMille, 1500}

\* float(np.clip(intensity, 0.0, 1.0))
clamp_intensity(intensity) == clip(intensity, 0, PerMille)

\* [f(p) for the pixels p of img], in the image's shape
map_pixels(img, f(_)) ==
  [y \in 1..Len(img) |-> [x \in 1..Len(img[y]) |-> f(img[y][x])]]

\* np.clip(img, 0.0, 1.0)
clip_image(img) ==
  [y \in 1..Len(img) |-> [x \in 1..Len(img[y]) |->
    [c \in 1..3 |-> clip(img[y][x][c], 0, Scale)]]]

\* img * (1.0 - t) + graded * t without the outer clip
blend_unclipped(img, graded, t) ==
  [y \in 1..Len(img) |-> [x \in 1..Len(img[y]) |->
    [c \in 1..3 |-> (img[y][x][c] * (PerMille - t) + graded[y][x][c] * t) \div PerMille]]]

\* create_lut.py:92-93, run.py:141-142, run.py:171, algorithm.py:184:
\* np.clip(img * (1.0 - t) + graded * t, 0.0, 1.0)
blend(img, graded, t) == clip_image(blend_unclipped(img, graded, t))

----------------------------------------------------------------------------
(* Border-excluded region *)

\* int(round(num / den)) for num >= 0: Python rounds a half to the even integer
round_half_even(num, den) ==
  LET q == num \div den
      r == num % den
  IN IF 2 * r < den THEN q
     ELSE IF 2 * r > den THEN q + 1
     ELSE IF q % 2 = 0 THEN q ELSE q + 1

\* The window taken from the top left corner
crop_inner_region_top_left(img, frac) ==
  LET inner_h == Max2(1, round_half_even(Len(img) * frac, PerMille))
      inner_w == Max2(1, round_half_even(Len(img[1]) * frac, PerMille))
  IN slice(img, 0, inner_h, 0, inner_w)

\* create_lut.py:119-125; frac in units of 1 / PerMille
crop_inner_region(img, frac) ==
  LET h == Len(img)
      w == Len(img[1])
      inner_h == Max2(1, round_half_even(h * frac, PerMille))
      inner_w == Max2(1, round_half_even(w * frac, PerMille))
      y0 == Max2(0, (h - inner_h) \div 2)
      x0 == Max2(0, (w - inner_w) \div 2)
  IN slice(img, y0, inner_h, x0, inner_w)

\* create_lut.py:119: frac = 0.90, also passed at 219-220, 229-230, 292-293
DefaultFrac == 900

eval_crop_whole(img) == img

\* create_lut.py:292-293: the region of an image that is scored
eval_crop(img) == crop_inner_region(img, DefaultFrac)

----------------------------------------------------------------------------
(* Polynomial Color Model *)

RECURSIVE Pow(_, _)
Pow(v, k) == IF k = 0 THEN 1 ELSE v * Pow(v, k - 1)

\* create_lut.py:57-60, run.py:105-108: the monomial r^a g^b b^c of one pixel,
\* at scale Scale
monomial(px, e) ==
  LET k == e[1] + e[2] + e[3]
      num == Pow(px[1], e[1]) * Pow(px[2], e[2]) * Pow(px[3], e[3])
  IN IF k = 0 THEN Scale ELSE num \div Pow(Scale, k - 1)

\* create_lut.py:57-60: one row of phi
poly_features(px, basis) == [j \in 1..Len(basis) |-> monomial(px, basis[j])]

\* phi @ coefs without the clip
poly_raw(px, coefs, basis) ==
  [c \in 1..3 |->
    SumSeq([j \in 1..Len(basis) |-> poly_features(px, basis)[j] * coefs[j][c]])
      \div PerMille]

\* create_lut.py:91, run.py:140: graded = np.clip(phi @ coefs, 0.0, 1.0)
poly_graded(img, coefs, basis) ==
  LET g(px) == [c \in 1..3 |-> clip(poly_raw(px, coefs, basis)[c], 0, Scale)]
  IN map_pixels(img, g)

\* t = intensity, not clamped
apply_poly_unclamped_t(img_rgb01, coefs, basis, intensity) ==
  blend(img_rgb01, poly_graded(img_rgb01, coefs, basis), intensity)

\* the result is not clipped
apply_poly_no_clip(img_rgb01, coefs, basis, intensity) ==
  blend_unclipped(img_rgb01, poly_graded(img_rgb01, coefs, basis),
                  clamp_intensity(intensity))

\* create_lut.py:82-93
apply_poly(img_rgb01, coefs, basis, intensity) ==
  blend(img_rgb01, poly_graded(img_rgb01, coefs, basis), clamp_intensity(intensity))

\* run.py:134-142
apply_poly_map(img, model, intensity) ==
  blend(img, poly_graded(img, model.coefs, model.exps), clamp_intensity(intensity))

\* The basis of test_apply_poly_identity_mapping
IdentityBasis == << <<1, 0, 0>>, <<0, 1, 0>>, <<0, 0, 1>> >>

Bases == {IdentityBasis, build_exponents(1), build_exponents(2)}

\* Coefficient matrices (num_features x 3) over a basis: a bias on the constant
\* feature, a gain on the feature of the output's own channel and one
\* coefficient for every other feature
CoefMatrices(basis) ==
  {[j \in 1..Len(basis) |-> [c \in 1..3 |->
      IF basis[j] = <<0, 0, 0>> THEN bias
      ELSE IF basis[j] = [i \in 1..3 |-> IF i = c THEN 1 ELSE 0] THEN gain
      ELSE cross]] :
    bias \in {-PerMille, 0, 2 * PerMille}, gain \in {0, 500, PerMille},
    cross \in {0, -250}}

----------------------------------------------------------------------------
(* CDF Matching Model *)

\* astype(np.int16) of num / den: the fraction is cut off towards zero
astype_int(num, den) == IF num >= 0 THEN num \div den ELSE -((-num) \div den)

\* run.py:166: np.clip((img * 255.0 + 0.5).astype(np.int16), 0, 255)
cdf_index(v) == clip(astype_int(2 * v + 1, 2), 0, 255)

\* run.py:167-169
cdf_mapped(img, lut) ==
  [y \in 1..Len(img) |-> [x \in 1..Len(img[y]) |->
    [c \in 1..3 |-> lut[c][cdf_index(img[y][x][c]) + 1]]]]

\* t = intensity, not clamped
apply_cdf_match_unclamped_t(img, model, intensity) ==
  blend(img, cdf_mapped(img, model.lut), intensity)

\* run.py:164-171
apply_cdf_match(img, model, intensity) ==
  blend(img, cdf_mapped(img, model.lut), clamp_intensity(intensity))

\* Lookup tables (3 x 256, entry k + 1 for level k): the identity, the inverse,
\* and tables with entries outside [0,1]
LookupTables ==
  {[c \in 1..3 |-> [k1 \in 1..256 |-> k1 - 1]],
   [c \in 1..3 |-> [k1 \in 1..256 |-> 256 - k1]],
   [c \in 1..3 |-> [k1 \in 1..256 |-> 2 * (k1 - 1) - 100]],
   [c \in 1..3 |-> [k1 \in 1..256 |-> IF c = 2 THEN 300 ELSE -20]]}

----------------------------------------------------------------------------
(* Procedural Grade Model: dark_academia/algorithm.py *)

\* algorithm.py:18-19
luma(px) == (299 * px[1] + 587 * px[2] + 114 * px[3]) \div 1000

\* np.interp(v, xp, fp) for non-decreasing xp
interp(v, xp, fp) ==
  IF v < xp[1] THEN fp[1]
  ELSE IF v >= xp[Len(xp)] THEN fp[Len(fp)]
  ELSE LET j == CHOOSE j \in 1..(Len(xp) - 1) : xp[j] <= v /\ v < xp[j + 1]
       IN fp[j] + ((v - xp[j]) * (fp[j + 1] - fp[j])) \div (xp[j + 1] - xp[j])

\* algorithm.py:100-105
tone_map(l, xin, xout) ==
  LET x == <<0, xin[1], xin[2], xin[3], Scale>>
      y == <<Max2(0, (xout[1] * 300) \div 1000), xout[1], xout[2], xout[3],
             Min2(Scale, (xout[3] * 1050) \div 1000)>>
  IN interp(l, x, y)

\* algorithm.py:108-111 for the coordinates (xx, yy) in 0..2 x 0..2, in units of
\* 1 / PerMille: floor(1000 * mod(sin(xx * 12.9898 + yy * 78.233) * 43758.5453, 1.0))
coord_hash(xx, yy) ==
  << <<0, 921, 57>>, <<182, 740, 564>>, <<27, 73, 364>> >>[yy + 1][xx + 1]

\* algorithm.py:131: float(model.get("cyan_suppression", 0.0))
cyan_suppression_of(model) ==
  IF "cyan_suppression" \in DOMAIN model THEN model.cyan_suppression ELSE 0

\* algorithm.py:136-141 without the clip
tone_raw(img, model) ==
  LET f(px) ==
        LET l == luma(px)
            lm == tone_map(l, model.anchors_in, model.anchors_out)
        IN [c \in 1..3 |-> (px[c] * lm * 10000) \div Max2(l * 10000, Scale)]
  IN map_pixels(img, f)

\* algorithm.py:136-141: ratio = lm / max(l, 1e-4); base = clip(src * ratio)
step_tone(img, model) == clip_image(tone_raw(img, model))

\* algorithm.py:144-145
step_desaturate(img, model) ==
  LET f(px) ==
        LET base_l == luma(px)
        IN [c \in 1..3 |-> base_l + ((px[c] - base_l) * model.sat_scale) \div PerMille]
  IN clip_image(map_pixels(img, f))

\* algorithm.py:26-30: the balance of each channel as a fraction <<num, den>>;
\* g = max(1e-6, mean[1])
channel_balance(img) ==
  LET px == flat_pixels(img)
      n == Len(px)
      sum(c) == SumSeq([i \in 1..n |-> px[i][c]])
      over_g(c) == IF sum(2) * 1000000 >= n * Scale
                   THEN <<sum(c), sum(2)>>
                   ELSE <<sum(c) * 1000000, n * Scale>>
  IN <<over_g(1), <<1, 1>>, over_g(3)>>

\* algorithm.py:149: clip(target / max(cur, 1e-4), 0.75, 1.25), cur = num / den
balance_gain(target, cur) ==
  LET raw == IF cur[1] >= (cur[2] + 9999) \div 10000
             THEN (target * cur[2]) \div cur[1]
             ELSE target * 10000
  IN clip(raw, 750, 1250)

\* algorithm.py:148-150
step_balance(img, model) ==
  LET cur == channel_balance(img)
      gain == [c \in 1..3 |-> balance_gain(model.target_balance[c], cur[c])]
      f(px) == [c \in 1..3 |-> (px[c] * gain[c]) \div PerMille]
  IN clip_image(map_pixels(img, f))

\* algorithm.py:153-157
step_split_tone(img, model) ==
  LET f(px) ==
        LET l2 == luma(px)
            hi_w == clip(((2 * l2 - Scale) * PerMille) \div Scale, 0, PerMille)
            sh_w == clip(((55 * Scale - 100 * l2) * PerMille) \div (55 * Scale),
                         0, PerMille)
        IN [c \in 1..3 |->
             px[c] + ((hi_w * model.warm_tone[c] + sh_w * model.cool_tone[c]) * Scale)
                       \div (PerMille * PerMille)]
  IN clip_image(map_pixels(img, f))

\* algorithm.py:160-164
step_cyan(img, model) ==
  LET f(px) ==
        LET cyan == clip(px[3] - Max2(px[1], px[2]), 0, Scale)
            cyan_w == (cyan * cyan_suppression_of(model)) \div PerMille
        IN <<px[1] + (cyan_w * 650) \div 1000,
             px[2] + (cyan_w * 280) \div 1000,
             px[3] - cyan_w>>
  IN clip_image(map_pixels(img, f))

\* algorithm.py:167
step_matte(img, model) ==
  LET f(px) == [c \in 1..3 |->
        (px[c] * (PerMille - model.matte_lift) + model.matte_lift * Scale)
          \div PerMille]
  IN clip_image(map_pixels(img, f))

\* algorithm.py:168: graded - max(0, graded - 0.88) * 0.28
step_shoulder(img, model) ==
  LET f(px) == [c \in 1..3 |->
        (10000 * px[c] - 28 * Max2(0, 100 * px[c] - 88 * Scale)) \div 10000]
  IN clip_image(map_pixels(img, f))

\* algorithm.py:171-175: 1 - vignette_strength * clip(r2, 0, 1) at pixel (xx, yy)
vignette(xx, yy, h, w, model) ==
  LET mw == Max2(1, w - 1)
      mh == Max2(1, h - 1)
      nx == 2 * xx - mw
      ny == 2 * yy - mh
      r2 == ((nx * nx * mh * mh + ny * ny * mw * mw) * PerMille) \div (mw * mw * mh * mh)
  IN PerMille - (model.vignette_strength * clip(r2, 0, PerMille)) \div PerMille

\* algorithm.py:171-176 without the clip
vignette_raw(img, model) ==
  [y \in 1..Len(img) |-> [x \in 1..Len(img[y]) |-> [c \in 1..3 |->
    (img[y][x][c] * vignette(x - 1, y - 1, Len(img), Len(img[1]), model))
      \div PerMille]]]

\* algorithm.py:171-176
step_vignette(img, model) == clip_image(vignette_raw(img, model))

\* algorithm.py:179-182
step_grain(img, model) ==
  LET weight == <<950, 800, 650>>
      noise(xx, yy) ==
        ((coord_hash(xx, yy) - 500) * (model.grain_strength * 2) * Scale)
          \div (PerMille * PerMille)
  IN clip_image(
       [y \in 1..Len(img) |-> [x \in 1..Len(img[y]) |-> [c \in 1..3 |->
         img[y][x][c] + (noise(x - 1, y - 1) * weight[c]) \div 1000]]])

\* t = intensity, not clamped
predict_blend_unclamped_t(src, graded, intensity) == blend(src, graded, intensity)

\* algorithm.py:123 and 184
predict_blend(src, graded, intensity) == blend(src, graded, clamp_intensity(intensity))

\* The steps of predict, in the order of algorithm.py:136-184
PredictSteps ==
  <<"start", "tone", "desaturate", "balance", "split_tone", "cyan", "matte",
    "shoulder", "vignette", "grain", "blend">>

\* A model as train returns it for the anchors of the specification's example
TrainedModel ==
  [anchors_in |-> <<26, 128, 230>>, anchors_out |-> <<13, 115, 204>>,
   sat_scale |-> 700, target_balance |-> <<1100, 1000, 900>>,
   warm_tone |-> <<55, -5, -50>>, cool_tone |-> <<-28, 5, 38>>,
   cyan_suppression |-> 220, vignette_strength |-> 330, matte_lift |-> 50,
   grain_strength |-> 22]

\* A model without the optional key cyan_suppression
NoCyanModel ==
  [anchors_in |-> <<26, 128, 230>>, anchors_out |-> <<13, 115, 204>>,
   sat_scale |-> 950, target_balance |-> <<1000, 1000, 1000>>,
   warm_tone |-> <<55, -5, -50>>, cool_tone |-> <<-28, 5, 38>>,
   vignette_strength |-> 330, matte_lift |-> 50, grain_strength |-> 22]

\* A model no train returns, whose parameters push every step out of [0,1]
WildModel ==
  [anchors_in |-> <<0, 128, 255>>, anchors_out |-> <<200, 255, 400>>,
   sat_scale |-> 3000, target_balance |-> <<5000, 1000, 0>>,
   warm_tone |-> <<900, 0, -900>>, cool_tone |-> <<-900, 0, 900>>,
   cyan_suppression |-> 2000, vignette_strength |-> -500, matte_lift |-> -500,
   grain_strength |-> 1000]

GradeModels == {TrainedModel, NoCyanModel, WildModel}

\* The hash values are taken one after the other from a generator, row by row
coord_hash_from_stream(h, w) ==
  [y \in 1..h |-> [x \in 1..w |->
     LET k == (y - 1) * w + (x - 1) IN coord_hash(k % 3, k \div 3)]]

\* algorithm.py:108-111: _coord_hash(h, w), the array over np.mgrid[0:h, 0:w]
coord_hash_array(h, w) == [y \in 1..h |-> [x \in 1..w |-> coord_hash(x - 1, y - 1)]]

\* algorithm.py:179: noise, in units of 1 / (PerMille * PerMille)
grain_noise(h, w, model) ==
  [y \in 1..h |-> [x \in 1..w |->
     (coord_hash_array(h, w)[y][x] - 500) * (model.grain_strength * 2)]]

\* algorithm.py:122 and 179: predict computes the noise for an image of h x w
CallGrainNoise ==
  /\ fn = "none"
  /\ \E h \in 1..3, w \in 1..3, model \in GradeModels :
       /\ args' = <<h, w, model>>
       /\ ret' = [calls |-> 1, first |-> grain_noise(h, w, model)]
  /\ fn' = "grain_noise"
  /\ UNCHANGED <<gridVars, runVars>>

\* A later invocation of predict, on an image of some size and with some model
CallGrainNoiseAgain ==
  /\ fn = "grain_noise"
  /\ ret.calls = 1
  /\ \E h \in 1..3, w \in 1..3, model \in GradeModels :
       ret' = [calls |-> 2, first |-> ret.first, second |-> grain_noise(h, w, model),
               second_model |-> model]
  /\ UNCHANGED <<fn, args>>
  /\ UNCHANGED <<gridVars, runVars>>

\* algorithm.py:114-134: predict is entered
CallPredict ==
  /\ fn = "none"
  /\ \E img \in Images, model \in GradeModels, intensity \in IntensityVals :
       /\ args' = <<img, model, intensity>>
       /\ ret' = [step |-> 1, img |-> img]
  /\ fn' = "predict"
  /\ UNCHANGED <<gridVars, runVars>>

\* The image after the step that follows step k
after_step(k, img, src, model, intensity) ==
  CASE k = 1 -> step_tone(img, model)
    [] k = 2 -> step_desaturate(img, model)
    [] k = 3 -> step_balance(img, model)
    [] k = 4 -> step_split_tone(img, model)
    [] k = 5 -> step_cyan(img, model)
    [] k = 6 -> step_matte(img, model)
    [] k = 7 -> step_shoulder(img, model)
    [] k = 8 -> step_vignette(img, model)
    [] k = 9 -> step_grain(img, model)
    [] k = 10 -> predict_blend(src, img, intensity)

\* algorithm.py:136-184: the next step of predict; the last one returns
PredictStep ==
  /\ fn = "predict"
  /\ ret.step < Len(PredictSteps)
  /\ ret' = [step |-> ret.step + 1,
             img |-> after_step(ret.step, ret.img, args[1], args[2], args[3])]
             @@ (IF ret.step = 10 THEN [graded |-> ret.img] ELSE <<>>)
  /\ UNCHANGED <<fn, args>>
  /\ UNCHANGED <<gridVars, runVars>>

CallApplyPoly ==
  /\ fn = "none"
  /\ \E img \in Images, basis \in Bases, intensity \in IntensityVals :
       \E coefs \in CoefMatrices(basis) :
         /\ args' = <<img, coefs, basis, intensity>>
         /\ ret' = [lut |-> apply_poly(img, coefs, basis, intensity),
                    run |-> apply_poly_map(img, [exps |-> basis, coefs |-> coefs],
                                           intensity),
                    graded |-> poly_graded(img, coefs, basis)]
  /\ fn' = "apply_poly"
  /\ UNCHANGED <<gridVars, runVars>>

CallApplyCdfMatch ==
  /\ fn = "none"
  /\ \E img \in Images, lut \in LookupTables, intensity \in IntensityVals :
       /\ args' = <<img, [lut |-> lut], intensity>>
       /\ ret' = [out |-> apply_cdf_match(img, [lut |-> lut], intensity),
                  graded |-> cdf_mapped(img, lut)]
  /\ fn' = "apply_cdf_match"
  /\ UNCHANGED <<gridVars, runVars>>

----------------------------------------------------------------------------
(* File names: a name is a sequence of characters; a directory is the set   *)
(* of the names of its files                                                *)

\* The characters of the names below, in the order of their code points
CharOrder == <<".", "G", "J", "P", "_", "a", "b", "c", "d", "e", "f", "g", "h", "i",
               "j", "k", "l", "m", "n", "o", "p", "q", "r", "s", "t", "u", "v", "w",
               "x", "y", "z">>

Ord(ch) == CHOOSE i \in 1..Len(CharOrder) : CharOrder[i] = ch

\* str.__lt__
RECURSIVE str_less(_, _)
str_less(s, t) ==
  IF t = <<>> THEN FALSE
  ELSE IF s = <<>> THEN TRUE
  ELSE IF Head(s) # Head(t) THEN Ord(Head(s)) < Ord(Head(t))
  ELSE str_less(Tail(s), Tail(t))

\* sorted(names)
RECURSIVE sorted(_)
sorted(names) ==
  IF names = {} THEN <<>>
  ELSE LET first == CHOOSE n \in names : \A m \in names \ {n} : str_less(n, m)
       IN <<first>> \o sorted(names \ {first})

\* s.startswith(pre)
startswith(s, pre) == Len(s) >= Len(pre) /\ SubSeq(s, 1, Len(pre)) = pre

\* s.endswith(suf)
endswith(s, suf) ==
  Len(s) >= Len(suf) /\ SubSeq(s, Len(s) - Len(suf) + 1, Len(s)) = suf

\* s[:-n]
drop_last(s, n) == SubSeq(s, 1, Len(s) - n)

\* s[n:]
drop_first(s, n) == SubSeq(s, n + 1, Len(s))

\* The position of the last "." of a name that starts its suffix, 0 if none
\* (PurePath.suffix: a leading dot starts no suffix)
suffix_at(name) ==
  LET dots == {i \in 2..Len(name) : name[i] = "."}
  IN IF dots = {} \/ Len(name) \in dots THEN 0
     ELSE CHOOSE i \in dots : \A k \in dots : k <= i

\* PurePath.stem
stem_of(name) == IF suffix_at(name) = 0 THEN name ELSE SubSeq(name, 1, suffix_at(name) - 1)

\* PurePath.suffix
suffix_of(name) == IF suffix_at(name) = 0 THEN <<>> ELSE SubSeq(name, suffix_at(name), Len(name))

S_in == <<"_", "i", "n">>
S_out == <<"_", "o", "u", "t">>
S_pred == <<"_", "p", "r", "e", "d">>
S_val == <<"v", "a", "l", "_">>
E_jpg == <<".", "j", "p", "g">>
E_jpeg == <<".", "j", "p", "e", "g">>
E_txt == <<".", "t", "x", "t">>
E_py == <<".", "p", "y">>

\* The files a dataset directory of the LUT trainer may hold
LutFiles ==
  { <<"a">> \o S_in \o E_jpg,                  \* a_in.jpg
    <<"a">> \o S_in \o E_jpeg,                 \* a_in.jpeg
    <<"a">> \o S_out \o E_jpg,                 \* a_out.jpg
    <<"a">> \o S_out \o E_jpeg,                \* a_out.jpeg
    S_val \o <<"b">> \o S_in \o E_jpeg,        \* val_b_in.jpeg
    S_val \o <<"b">> \o S_out \o E_jpeg,       \* val_b_out.jpeg
    <<"v", "a", "l">> \o S_in \o E_jpg,        \* val_in.jpg
    <<"v", "a", "l">> \o S_out \o E_jpg,       \* val_out.jpg
    <<"b", "r", "o", "k", "e", "n">> \o S_in \o E_jpg,   \* broken_in.jpg
    <<"n", "o", "t", "e", "s">> \o E_txt }     \* notes.txt

----------------------------------------------------------------------------
(* Dataset discovery of the LUT trainer *)

\* dataset_dir.glob("*" + tail)
glob_tail(directory, tail) == {n \in directory : endswith(n, tail)}

\* create_lut.py:136
split_of_key(key) == IF startswith(key, S_val) THEN "val" ELSE "train"

\* create_lut.py:132-142: the pair of one input file, or the exception raised
pair_of(directory, in_path) ==
  LET key == drop_last(stem_of(in_path), 3)
      out_jpg == key \o S_out \o E_jpg
      out_jpeg == key \o S_out \o E_jpeg
      out_path == IF out_jpg \in directory THEN out_jpg ELSE out_jpeg
  IN IF out_path \notin directory
     THEN [raised |-> "FileNotFoundError"]
     ELSE [raised |-> "", key |-> key, split |-> split_of_key(key),
           in_path |-> in_path, out_path |-> out_path]

\* create_lut.py:131-142: the loop over in_files from position i on
RECURSIVE pairs_from(_, _, _, _)
pairs_from(directory, in_files, i, acc) ==
  IF i > Len(in_files) THEN [raised |-> "", pairs |-> acc]
  ELSE IF ~endswith(stem_of(in_files[i]), S_in)
       THEN pairs_from(directory, in_files, i + 1, acc)
  ELSE LET p == pair_of(directory, in_files[i])
       IN IF p.raised # "" THEN [raised |-> p.raised, pairs |-> <<>>]
          ELSE pairs_from(directory, in_files, i + 1, Append(acc, p))

\* create_lut.py:128-145
find_pairs(directory) ==
  LET in_files == sorted(glob_tail(directory, S_in \o E_jpg))
                    \o sorted(glob_tail(directory, S_in \o E_jpeg))
      found == pairs_from(directory, in_files, 1, <<>>)
  IN IF found.raised = "" /\ found.pairs = <<>>
     THEN [raised |-> "FileNotFoundError", pairs |-> <<>>]
     ELSE found

CallFindPairs ==
  /\ fn = "none"
  /\ \E directory \in SUBSET LutFiles :
       /\ args' = <<directory>>
       /\ ret' = find_pairs(directory)
  /\ fn' = "find_pairs"
  /\ UNCHANGED <<gridVars, runVars>>

----------------------------------------------------------------------------
(* Dataset discovery of the vibe trainer *)

E_png == <<".", "p", "n", "g">>
E_webp == <<".", "w", "e", "b", "p">>

\* run.py:22
IMAGE_EXTS == {E_jpg, E_jpeg, E_png, E_webp}

lower_char(ch) ==
  CASE ch = "G" -> "g" [] ch = "J" -> "j" [] ch = "P" -> "p" [] OTHER -> ch

\* str.lower
lower(s) == [i \in 1..Len(s) |-> lower_char(s[i])]

\* dataset_dir / "algorithm.py"
custom_algorithm_path == <<"a", "l", "g", "o", "r", "i", "t", "h", "m">> \o E_py

\* The files a dataset directory of the vibe trainer may hold
VibeFiles ==
  { <<"a">> \o S_in \o E_jpg,                  \* a_in.jpg
    <<"a">> \o S_in \o E_jpeg,                 \* a_in.jpeg
    <<"a">> \o S_out \o E_jpg,                 \* a_out.jpg
    S_val \o <<"b">> \o S_in \o E_jpeg,        \* val_b_in.jpeg
    S_val \o <<"b">> \o S_out \o E_jpeg,       \* val_b_out.jpeg
    <<"c">> \o S_out \o <<".", "J", "P", "G">>,  \* c_out.JPG
    <<"v", "a", "l">> \o S_in \o E_jpg,        \* val_in.jpg
    <<"a">> \o S_pred \o E_jpg,                \* a_pred.jpg
    custom_algorithm_path }                    \* algorithm.py

\* run.py:71
split_of_stem(stem) == IF startswith(stem, S_val) THEN "val" ELSE "train"

\* run.py:72
key_stem_of(stem) == IF split_of_stem(stem) = "val" THEN drop_first(stem, 4) ELSE stem

\* d[k] = v on a dict
dict_set(d, k, v) == [x \in (DOMAIN d) \cup {k} |-> IF x = k THEN v ELSE d[x]]

\* run.py:67-83: the loop over the sorted directory from position i on
RECURSIVE scan_files(_, _, _)
scan_files(files, i, acc) ==
  IF i > Len(files) THEN acc
  ELSE LET path == files[i]
           split == split_of_stem(stem_of(path))
           key_stem == key_stem_of(stem_of(path))
       IN IF lower(suffix_of(path)) \notin IMAGE_EXTS
            THEN scan_files(files, i + 1, acc)
          ELSE IF endswith(key_stem, S_pred)
            THEN scan_files(files, i + 1, acc)
          ELSE IF endswith(key_stem, S_in)
            THEN scan_files(files, i + 1,
                   [acc EXCEPT !.ins = dict_set(@, <<split, drop_last(key_stem, 3)>>, path)])
          ELSE IF endswith(key_stem, S_out)
            THEN scan_files(files, i + 1,
                   [acc EXCEPT !.outs = dict_set(@, <<split, drop_last(key_stem, 4)>>, path)])
          ELSE scan_files(files, i + 1, [acc EXCEPT !.ignored = Append(@, path)])

\* tuple.__lt__ on (split, key)
pair_less(p, q) == IF p[1] # q[1] THEN p[1] = "train" ELSE str_less(p[2], q[2])

\* sorted(d.items()), the keys
RECURSIVE sorted_keys(_)
sorted_keys(ks) ==
  IF ks = {} THEN <<>>
  ELSE LET first == CHOOSE p \in ks : \A q \in ks \ {p} : pair_less(p, q)
       IN <<first>> \o sorted_keys(ks \ {first})

\* [f(x) for x in xs if x in keep]
RECURSIVE select_keys(_, _)
select_keys(xs, keep) ==
  IF xs = <<>> THEN <<>>
  ELSE (IF Head(xs) \in keep THEN <<Head(xs)>> ELSE <<>>) \o select_keys(Tail(xs), keep)

\* run.py:62-92
parse_dataset(directory) ==
  LET acc == scan_files(sorted(directory), 1,
                        [ins |-> <<>>, outs |-> <<>>, ignored |-> <<>>])
      in_keys == sorted_keys(DOMAIN acc.ins)
      found == [i \in 1..Len(in_keys) |->
                  [key |-> in_keys[i][2], split |-> in_keys[i][1],
                   in_path |-> acc.ins[in_keys[i]],
                   out_path |-> IF in_keys[i] \in DOMAIN acc.outs
                                THEN acc.outs[in_keys[i]] ELSE NoneVal]]
      alone == select_keys(sorted_keys(DOMAIN acc.outs),
                           (DOMAIN acc.outs) \ (DOMAIN acc.ins))
  IN IF found = <<>>
     THEN [raised |-> "FileNotFoundError", samples |-> <<>>, ignored |-> <<>>,
           standalone_out_refs |-> <<>>]
     ELSE [raised |-> "", samples |-> found, ignored |-> acc.ignored,
           standalone_out_refs |-> [i \in 1..Len(alone) |-> acc.outs[alone[i]]]]

CallParseDataset ==
  /\ fn = "none"
  /\ \E directory \in SUBSET VibeFiles :
       /\ args' = <<directory>>
       /\ ret' = parse_dataset(directory)
  /\ fn' = "parse_dataset"
  /\ UNCHANGED <<gridVars, runVars>>

----------------------------------------------------------------------------
(* Calls of the pure functions *)

\* An h x w image whose pixel at row y, column x holds <<y, x, tag>>
CoordImage(h, w, tag) == [y \in 1..h |-> [x \in 1..w |-> <<y, x, tag>>]]

CallCenterCropPair ==
  /\ fn = "none"
  /\ \E ha \in 1..MaxSide, wa \in 1..MaxSide, hb \in 1..MaxSide, wb \in 1..MaxSide :
       /\ args' = <<CoordImage(ha, wa, 0), CoordImage(hb, wb, 1)>>
       /\ ret' = center_crop_pair(CoordImage(ha, wa, 0), CoordImage(hb, wb, 1))
  /\ fn' = "center_crop_pair"
  /\ UNCHANGED <<gridVars, runVars>>

\* The fractions crop_inner_region is called with, in units of 1 / PerMille
FracVals == {1, 100, 250, 333, 500, 750, DefaultFrac, PerMille}

CallCropInnerRegion ==
  /\ fn = "none"
  /\ \E h \in 1..MaxCropSide, w \in 1..MaxCropSide, frac \in FracVals :
       /\ args' = <<CoordImage(h, w, 0), frac>>
       /\ ret' = crop_inner_region(CoordImage(h, w, 0), frac)
  /\ fn' = "crop_inner_region"
  /\ UNCHANGED <<gridVars, runVars>>

\* create_lut.py:292-293: the prediction and the target of one pair, of equal
\* size after center_crop_pair, are cropped for the metrics
CallEvalCrop ==
  /\ fn = "none"
  /\ \E h \in 1..MaxCropSide, w \in 1..MaxCropSide :
       /\ args' = <<CoordImage(h, w, 0), CoordImage(h, w, 1)>>
       /\ ret' = [pred_eval |-> eval_crop(CoordImage(h, w, 0)),
                  tgt_eval |-> eval_crop(CoordImage(h, w, 1))]
  /\ fn' = "eval_crop"
  /\ UNCHANGED <<gridVars, runVars>>

(* Subsampling. The generator is a stand-in for numpy's PCG64: a small linear  *)
(* congruential generator. What the model keeps of it is that a generator is   *)
(* made from a seed, that a draw depends on the generator's state alone and    *)
(* advances it.                                                                *)

\* np.random.default_rng(seed): the state of a new generator
default_rng(seed) == seed % 16

\* The state after one draw
rng_next(state) == (state * 5 + 3) % 16

\* rng.choice(n, size, replace=False): size distinct indices drawn from remaining
RECURSIVE rng_choice(_, _, _)
rng_choice(state, remaining, size) ==
  IF size = 0 THEN <<>>
  ELSE LET i == (state % Len(remaining)) + 1
           rest == [k \in 1..(Len(remaining) - 1) |->
                      IF k < i THEN remaining[k] ELSE remaining[k + 1]]
       IN <<remaining[i]>> \o rng_choice(rng_next(state), rest, size - 1)

\* The generator is made without the seed: from the entropy of the moment,
\* which differs between two calls
maybe_subsample_unseeded(x, y, sample_size, seed) ==
  IF sample_size <= 0 \/ Len(x) <= sample_size THEN <<x, y>>
  ELSE LET rng == default_rng(IF fn = "none" THEN 7 ELSE 12)
           idx == rng_choice(rng, [i \in 1..Len(x) |-> i], sample_size)
       IN <<[k \in 1..sample_size |-> x[idx[k]]], [k \in 1..sample_size |-> y[idx[k]]]>>

\* create_lut.py:154-159
maybe_subsample(x, y, sample_size, seed) ==
  IF sample_size <= 0 \/ Len(x) <= sample_size THEN <<x, y>>
  ELSE LET rng == default_rng(seed)
           idx == rng_choice(rng, [i \in 1..Len(x) |-> i], sample_size)
       IN <<[k \in 1..sample_size |-> x[idx[k]]], [k \in 1..sample_size |-> y[idx[k]]]>>

\* The seeds of --seed
SeedVals == {0, 1, 2, 42}

\* create_lut.py:225: x_train and y_train of n rows, row i of x belonging to row i of y
TrainRows(n, tag) == [i \in 1..n |-> <<i, tag, 0>>]

CallMaybeSubsample ==
  /\ fn = "none"
  /\ \E n \in 1..MaxSamples, sample_size \in (-1)..(MaxSamples + 1), seed \in SeedVals :
       /\ args' = <<TrainRows(n, 0), TrainRows(n, 1), sample_size, seed>>
       /\ ret' = [calls |-> 1,
                  first |-> maybe_subsample(TrainRows(n, 0), TrainRows(n, 1),
                                            sample_size, seed)]
  /\ fn' = "maybe_subsample"
  /\ UNCHANGED <<gridVars, runVars>>

\* A second invocation with the same data, cap and seed
CallMaybeSubsampleAgain ==
  /\ fn = "maybe_subsample"
  /\ ret.calls = 1
  /\ ret' = [calls |-> 2, first |-> ret.first,
             second |-> maybe_subsample(args[1], args[2], args[3], args[4])]
  /\ UNCHANGED <<fn, args>>
  /\ UNCHANGED <<gridVars, runVars>>

\* The midtone and the highlight are clamped to their own band only
anchors_out_unordered(ref_p10, ref_mid, ref_p90) ==
  <<Max2(20, Min2(200, ref_p10 + 10)),
    Max2(70, Min2(480, ref_mid + 20)),
    Max2(150, Min2(860, ref_p90 - 20))>>

\* dark_academia/algorithm.py:73-75, in units of 1 / PerMille
anchors_out(ref_p10, ref_mid, ref_p90) ==
  LET target_shadow == Max2(20, Min2(200, ref_p10 + 10))
      target_midtone == Max2(target_shadow + 50, Min2(480, ref_mid + 20))
      target_high == Max2(target_midtone + 80, Min2(860, ref_p90 - 20))
  IN <<target_shadow, target_midtone, target_high>>

\* dark_academia/algorithm.py:66-71: percentiles of the luma of the references
PercentileVals == {0, 9, 10, 50, 100, 189, 190, 191, 300, 459, 460, 461, 500, 879, 880,
                   881, 900, PerMille}

CallTrainAnchors ==
  /\ fn = "none"
  /\ \E ref_p10 \in PercentileVals, ref_mid \in PercentileVals, ref_p90 \in PercentileVals :
       /\ args' = <<ref_p10, ref_mid, ref_p90>>
       /\ ret' = anchors_out(ref_p10, ref_mid, ref_p90)
  /\ fn' = "train_anchors"
  /\ UNCHANGED <<gridVars, runVars>>

CallBuildExponents ==
  /\ fn = "none"
  /\ \E D \in 0..MaxBasisDegree :
       /\ args' = <<D>>
       /\ ret' = [lut |-> build_exponents(D), run |-> build_exponents_run(D)]
  /\ fn' = "build_exponents"
  /\ UNCHANGED <<gridVars, runVars>>

CallMaeRmse ==
  /\ fn = "none"
  /\ \E pred \in Images, tgt \in Images :
       /\ shape(pred) = shape(tgt)
       /\ args' = <<pred, tgt>>
       /\ ret' = [lut |-> mae_rmse(pred, tgt), run |-> mae_rmse_run(pred, tgt)]
  /\ fn' = "mae_rmse"
  /\ UNCHANGED <<gridVars, runVars>>

\* The grid search is not running
GridIdle ==
  /\ pc = "idle"
  /\ max_degree = 0
  /\ lambdas = <<>>
  /\ has_val = FALSE
  /\ degree = 0
  /\ lam_i = 0
  /\ exps = <<>>
  /\ best = NoneVal
  /\ best_payload = NoneVal
  /\ selected = NoneVal
  /\ evaluated = <<>>
  /\ best_at = 0

InitCalls == GridIdle /\ CallIdle /\ RunIdle

NextCalls ==
  \/ CallBuildExponents
  \/ CallMaeRmse
  \/ CallApplyPoly
  \/ CallApplyCdfMatch
  \/ CallPredict
  \/ PredictStep
  \/ CallFindPairs
  \/ CallParseDataset
  \/ CallCenterCropPair
  \/ CallCropInnerRegion
  \/ CallEvalCrop
  \/ CallMaybeSubsample
  \/ CallMaybeSubsampleAgain
  \/ CallTrainAnchors
  \/ CallGrainNoise
  \/ CallGrainNoiseAgain

SpecCalls == InitCalls /\ [][NextCalls]_vars

----------------------------------------------------------------------------
(* Claims about the pure functions *)

\* x comes before y in the Feature Basis: total degree ascending, then a
\* descending, then b descending
BasisBefore(x, y) ==
  LET dx == x[1] + x[2] + x[3]
      dy == y[1] + y[2] + y[3]
  IN \/ dx < dy
     \/ dx = dy /\ x[1] > y[1]
     \/ dx = dy /\ x[1] = y[1] /\ x[2] > y[2]

TriplesUpTo(D) ==
  {t \in (0..D) \X (0..D) \X (0..D) : t[1] + t[2] + t[3] <= D}

\* C4: build_exponents(D) of create_lut.py and of run.py return the same
\* sequence; it holds exactly the triples (a, b, c) of non-negative integers
\* with a + b + c <= D, each once, ordered by total degree ascending, then a
\* descending, then b descending; it has C(D+3, 3) entries, starts with
\* (0,0,0) and contains (D,0,0).
C4_BasisIsOrderedEnumeration ==
  fn = "build_exponents" =>
    LET D == args[1]
        e == ret.lut
    IN /\ ret.run = e
       /\ {e[i] : i \in 1..Len(e)} = TriplesUpTo(D)
       /\ \A i, j \in 1..Len(e) : i < j => BasisBefore(e[i], e[j])
       /\ Len(e) * 6 = (D + 1) * (D + 2) * (D + 3)
       /\ e[1] = <<0, 0, 0>>
       /\ \E i \in 1..Len(e) : e[i] = <<D, 0, 0>>

\* The basis of degree 2 of the repository's test: 10 entries, (0,1,1) among them
C4_Witness ==
  /\ fn = "build_exponents"
  /\ args = <<2>>
  /\ Len(ret.lut) = 10
  /\ ret.lut[9] = <<0, 1, 1>>
  /\ ret.run[5] = <<2, 0, 0>>

C2_IntensityEndpoints ==
  /\ (fn = "apply_poly" /\ in_unit_range(args[1])) =>
       /\ args[4] <= 0 => ret.lut = args[1] /\ ret.run = args[1]
       /\ args[4] >= PerMille => ret.lut = ret.graded /\ ret.run = ret.graded
  /\ (fn = "apply_cdf_match" /\ in_unit_range(args[1])) =>
       /\ args[3] <= 0 => ret.out = args[1]
       /\ args[3] >= PerMille => ret.out = clip_image(ret.graded)
  /\ (fn = "predict" /\ ret.step = Len(PredictSteps) /\ in_unit_range(args[1])) =>
       /\ args[3] <= 0 => ret.img = args[1]
       /\ args[3] >= PerMille => ret.img = ret.graded

\* predict has returned for an intensity below 0 and an image of two pixels in
\* [0,1]: the graded image differs from the input, the result is the input
C2_Witness ==
  /\ fn = "predict"
  /\ ret.step = Len(PredictSteps)
  /\ in_unit_range(args[1])
  /\ Len(args[1][1]) = 2
  /\ args[3] < 0
  /\ ret.graded # args[1]
  /\ ret.img = args[1]

\* C3: every value of the image a transform returns lies in [0,1], for every
\* input image, model and intensity; in predict this also holds of the image
\* after each step.
C3_OutputsInUnitRange ==
  /\ fn = "apply_poly" => in_unit_range(ret.lut) /\ in_unit_range(ret.run)
  /\ fn = "apply_cdf_match" => in_unit_range(ret.out)
  /\ (fn = "predict" /\ ret.step > 1) => in_unit_range(ret.img)

\* The tone step of predict has run on an input with values outside [0,1] and
\* the unclipped product src * ratio leaves [0,1]
C3_Witness ==
  /\ fn = "predict"
  /\ ret.step = 2
  /\ ~in_unit_range(args[1])
  /\ ~in_unit_range(tone_raw(args[1], args[2]))
  /\ args[3] > PerMille

\* The input files of a directory: the files ending in _in.jpg or _in.jpeg
InputFiles(directory) ==
  {n \in directory : endswith(n, S_in \o E_jpg) \/ endswith(n, S_in \o E_jpeg)}

\* The name without its extension and without the _in before it
KeyOfInput(n) ==
  IF endswith(n, E_jpeg) THEN drop_last(n, Len(S_in \o E_jpeg))
  ELSE drop_last(n, Len(S_in \o E_jpg))

\* The _out files an input may be paired with
OutFilesOf(directory, n) ==
  {KeyOfInput(n) \o S_out \o E_jpg, KeyOfInput(n) \o S_out \o E_jpeg} \cap directory

\* C7: find_pairs returns one sample per file ending in _in (.jpg or .jpeg),
\* labelled val exactly when the file's name has the val_ prefix and train
\* otherwise, each paired with its same-key _out file; it raises
\* FileNotFoundError and returns no sample if some input has no matching
\* _out.jpg or _out.jpeg file, or if the directory has no input file.
C7_FindPairsAsClaimed ==
  fn = "find_pairs" =>
    LET directory == args[1]
        inputs == InputFiles(directory)
        must_raise == inputs = {} \/ \E n \in inputs : OutFilesOf(directory, n) = {}
    IN IF must_raise
       THEN ret.raised = "FileNotFoundError" /\ ret.pairs = <<>>
       ELSE /\ ret.raised = ""
            /\ Len(ret.pairs) = Cardinality(inputs)
            /\ {ret.pairs[i].in_path : i \in 1..Len(ret.pairs)} = inputs
            /\ \A i \in 1..Len(ret.pairs) :
                 /\ ret.pairs[i].split =
                      (IF startswith(ret.pairs[i].in_path, S_val) THEN "val" ELSE "train")
                 /\ ret.pairs[i].out_path \in OutFilesOf(directory, ret.pairs[i].in_path)

----------------------------------------------------------------------------
(* One run of create_lut.main or of run.main over a dataset directory *)

\* The files a run writes besides the prediction images
N_lut_model_npz == <<"l", "u", "t", "_", "m", "o", "d", "e", "l", ".", "n", "p", "z">>
N_lut_model_json == <<"l", "u", "t", "_", "m", "o", "d", "e", "l", ".", "j", "s", "o", "n">>
N_metrics_json == <<"m", "e", "t", "r", "i", "c", "s", ".", "j", "s", "o", "n">>
N_vibe_model_json == <<"v", "i", "b", "e", "_", "m", "o", "d", "e", "l", ".", "j", "s", "o", "n">>
N_vibe_metrics_json ==
  <<"v", "i", "b", "e", "_", "m", "e", "t", "r", "i", "c", "s", ".", "j", "s", "o", "n">>

\* The messages of the exceptions
DirNotFound == "FileNotFoundError: Dataset directory not found"
NoTrainingPairs == "ValueError: No training pairs found"
NoCustomAlgorithm == "FileNotFoundError: Expected custom algorithm"
NoTrainPredict == "AttributeError: Custom algorithm.py must expose train and predict"
PolyMapNeedsPair == "ValueError: poly_map requires at least one paired train example"
CdfMatchNeedsRef == "ValueError: cdf_match requires at least one *_out style reference image"
NothingToConcatenate == "ValueError: need at least one array to concatenate"
NeedTrainingInput == "ValueError: Need at least one training input image"
NeedStyleReference == "ValueError: Need at least one *_out style reference image"
ShapeMismatch == "ValueError: Prediction shape mismatch"

\* [s for s in seq if s.split == split]
RECURSIVE of_split(_, _)
of_split(seq, split) ==
  IF seq = <<>> THEN <<>>
  ELSE (IF Head(seq).split = split THEN <<Head(seq)>> ELSE <<>>) \o of_split(Tail(seq), split)

\* [s for s in seq if s.out_path is not None]
RECURSIVE with_out(_)
with_out(seq) ==
  IF seq = <<>> THEN <<>>
  ELSE (IF Head(seq).out_path # NoneVal THEN <<Head(seq)>> ELSE <<>>) \o with_out(Tail(seq))

no_train_pairs_unchecked(train_pairs) == FALSE

\* create_lut.py:212
no_train_pairs(train_pairs) == train_pairs = <<>>

\* The grid search variables but pc
gridRest == <<max_degree, lambdas, has_val, degree, lam_i, exps, best, best_payload,
              selected, evaluated, best_at>>

\* create_lut.py:199-213
LutDiscover ==
  /\ program = "create_lut"
  /\ pc = "main"
  /\ IF ~is_dir
     THEN /\ raised' = DirNotFound
          /\ pc' = "error"
          /\ UNCHANGED <<pairs>>
     ELSE LET found == find_pairs(dataset_dir)
          IN IF found.raised # ""
             THEN /\ raised' = found.raised
                  /\ pc' = "error"
                  /\ UNCHANGED <<pairs>>
             ELSE /\ pairs' = found.pairs
                  /\ IF no_train_pairs(of_split(found.pairs, "train"))
                     THEN raised' = NoTrainingPairs /\ pc' = "error"
                     ELSE raised' = raised /\ pc' = "load"
  /\ UNCHANGED gridRest
  /\ UNCHANGED <<program, is_dir, dataset_dir, algorithm, custom_module, samples,
                 selected_algorithm, sample_i, prediction, per_image_metrics, written,
                 preds>>
  /\ UNCHANGED callVars

\* create_lut.py:215-236: the samples are loaded, the grid search starts
LutLoad ==
  /\ program = "create_lut"
  /\ pc = "load"
  /\ has_val' = (of_split(pairs, "val") # <<>>)
  /\ pc' = "degree_loop"
  /\ UNCHANGED <<max_degree, lambdas, degree, lam_i, exps, best, best_payload, selected,
                 evaluated, best_at>>
  /\ UNCHANGED <<callVars, runVars>>

\* create_lut.py:288
lut_pred_path(pair) == pair.key \o S_pred \o E_jpg

\* create_lut.py:283-303: one iteration of the prediction loop
LutPredictPair ==
  /\ program = "create_lut"
  /\ pc = "selected"
  /\ sample_i < Len(pairs)
  /\ LET pair == pairs[sample_i + 1]
     IN /\ written' = Append(written, lut_pred_path(pair))
        /\ per_image_metrics' =
             Append(per_image_metrics,
                    [key |-> pair.key, split |-> pair.split, pred |-> lut_pred_path(pair),
                     scored |-> TRUE])
  /\ sample_i' = sample_i + 1
  /\ UNCHANGED <<program, is_dir, dataset_dir, algorithm, custom_module, pairs, samples,
                 selected_algorithm, prediction, raised, preds>>
  /\ UNCHANGED <<gridVars, callVars>>

\* The loop is left at once
loop_done_at_once(i, seq) == TRUE

\* create_lut.py:283, run.py:271: the for loop over seq has no element left
loop_done(i, seq) == i = Len(seq)

\* create_lut.py:313-314
LutSaveModelNpz ==
  /\ program = "create_lut"
  /\ pc = "selected"
  /\ loop_done(sample_i, pairs)
  /\ written' = Append(written, N_lut_model_npz)
  /\ pc' = "model_json"
  /\ UNCHANGED gridRest
  /\ UNCHANGED <<program, is_dir, dataset_dir, algorithm, custom_module, pairs, samples,
                 selected_algorithm, sample_i, prediction, per_image_metrics, raised,
                 preds>>
  /\ UNCHANGED callVars

\* create_lut.py:316-335
LutWriteModelJson ==
  /\ program = "create_lut"
  /\ pc = "model_json"
  /\ written' = Append(written, N_lut_model_json)
  /\ pc' = "metrics_json"
  /\ UNCHANGED gridRest
  /\ UNCHANGED <<program, is_dir, dataset_dir, algorithm, custom_module, pairs, samples,
                 selected_algorithm, sample_i, prediction, per_image_metrics, raised,
                 preds>>
  /\ UNCHANGED callVars

\* create_lut.py:337-345
LutWriteMetrics ==
  /\ program = "create_lut"
  /\ pc = "metrics_json"
  /\ written' = Append(written, N_metrics_json)
  /\ pc' = "done"
  /\ UNCHANGED gridRest
  /\ UNCHANGED <<program, is_dir, dataset_dir, algorithm, custom_module, pairs, samples,
                 selected_algorithm, sample_i, prediction, per_image_metrics, raised,
                 preds>>
  /\ UNCHANGED callVars

\* run.py:210-221
VibeDiscover ==
  /\ program = "run"
  /\ pc = "main"
  /\ IF ~is_dir
     THEN /\ raised' = DirNotFound
          /\ pc' = "error"
          /\ UNCHANGED samples
     ELSE LET parsed == parse_dataset(dataset_dir)
          IN IF parsed.raised # ""
             THEN /\ raised' = parsed.raised
                  /\ pc' = "error"
                  /\ UNCHANGED samples
             ELSE /\ samples' = parsed.samples
                  /\ pc' = "select"
                  /\ UNCHANGED raised
  /\ UNCHANGED <<program, is_dir, dataset_dir, algorithm, custom_module, pairs,
                 selected_algorithm, sample_i, prediction, per_image_metrics, written,
                 preds>>
  /\ UNCHANGED <<gridRest, callVars>>

\* run.py:216
paired_train == with_out(of_split(samples, "train"))

\* run.py:219-220: the paths of the images of style_refs
style_refs ==
  [i \in 1..Len(paired_train) |-> paired_train[i].out_path]
    \o parse_dataset(dataset_dir).standalone_out_refs

\* run.py:223-233
VibeSelectAlgorithm ==
  /\ program = "run"
  /\ pc = "select"
  /\ selected_algorithm' =
       IF algorithm = "auto"
       THEN IF custom_algorithm_path \in dataset_dir THEN "custom"
            ELSE IF paired_train # <<>> THEN "poly_map"
            ELSE "cdf_match"
       ELSE algorithm
  /\ pc' = "train"
  /\ UNCHANGED <<program, is_dir, dataset_dir, algorithm, custom_module, pairs, samples,
                 sample_i, prediction, per_image_metrics, written, raised, preds>>
  /\ UNCHANGED <<gridRest, callVars>>

\* dark_academia/algorithm.py:39-51: ref_paths
dark_academia_ref_paths(context_samples, directory) ==
  {context_samples[i].out_path :
     i \in {k \in 1..Len(context_samples) :
              context_samples[k].split = "train" /\ context_samples[k].out_path # NoneVal}}
    \cup {path \in directory :
            /\ lower(suffix_of(path)) \in {E_jpg, E_jpeg, E_png, E_webp}
            /\ endswith(IF startswith(stem_of(path), S_val)
                        THEN drop_first(stem_of(path), 4) ELSE stem_of(path), S_out)}

\* dark_academia/algorithm.py:33-56: the exception train raises, "" if none
dark_academia_train(context_samples, directory) ==
  IF of_split(context_samples, "train") = <<>> THEN NeedTrainingInput
  ELSE IF dark_academia_ref_paths(context_samples, directory) = {} THEN NeedStyleReference
  ELSE ""

\* run.py:146-148: the exception train_cdf_match raises, "" if none
train_cdf_match(inputs, refs) ==
  IF refs = <<>> THEN CdfMatchNeedsRef
  ELSE IF inputs = <<>> THEN NothingToConcatenate
  ELSE ""

poly_map_unpaired_unchecked(paired_train_arrays) == ""

\* run.py:262-263: the exception of the poly_map branch, "" if none
poly_map_unpaired(paired_train_arrays) ==
  IF paired_train_arrays = <<>> THEN PolyMapNeedsPair ELSE ""

\* run.py:236-268: the exception training raises, "" if none
train_raises ==
  IF selected_algorithm = "custom"
  THEN IF custom_algorithm_path \notin dataset_dir THEN NoCustomAlgorithm
       ELSE IF custom_module = "incomplete" THEN NoTrainPredict
       ELSE IF custom_module = "dark_academia"
            THEN dark_academia_train(samples, dataset_dir)
       ELSE ""
  ELSE IF selected_algorithm = "poly_map" THEN poly_map_unpaired(paired_train)
  ELSE train_cdf_match(of_split(samples, "train"), style_refs)

\* run.py:235-268
VibeTrain ==
  /\ program = "run"
  /\ pc = "train"
  /\ raised' = train_raises
  /\ pc' = IF train_raises # "" THEN "error" ELSE "loop"
  /\ UNCHANGED <<program, is_dir, dataset_dir, algorithm, custom_module, pairs, samples,
                 selected_algorithm, sample_i, prediction, per_image_metrics, written,
                 preds>>
  /\ UNCHANGED <<gridRest, callVars>>

\* run.py:289-290
vibe_pred_path(s) ==
  (IF s.split = "val" THEN S_val ELSE <<>>) \o s.key \o S_pred \o E_jpg

\* Whether pred.shape = src.shape can hold for a prediction: the built-in
\* predictors, dark_academia and the template keep the shape of the input; a
\* user-written algorithm.py may return any array
same_shape_outcomes ==
  IF selected_algorithm = "custom" /\ custom_module = "user" THEN BOOLEAN ELSE {TRUE}

\* run.py:271-284: the prediction of the next sample
VibePredict ==
  /\ program = "run"
  /\ pc = "loop"
  /\ sample_i < Len(samples)
  /\ \E same_shape \in same_shape_outcomes :
       LET p == [path |-> vibe_pred_path(samples[sample_i + 1]), same_shape |-> same_shape]
       IN /\ prediction' = p
          /\ preds' = Append(preds, p)
  /\ pc' = "check"
  /\ UNCHANGED <<program, is_dir, dataset_dir, algorithm, custom_module, pairs, samples,
                 selected_algorithm, sample_i, per_image_metrics, written, raised>>
  /\ UNCHANGED <<gridRest, callVars>>

shape_mismatch_unchecked(p) == FALSE

\* run.py:286
shape_mismatch(p) == ~p.same_shape

\* run.py:286-305: the shape check, then the save and the metrics of the sample
VibeCheckAndSave ==
  /\ program = "run"
  /\ pc = "check"
  /\ IF shape_mismatch(prediction)
     THEN /\ raised' = ShapeMismatch
          /\ pc' = "error"
          /\ UNCHANGED <<written, per_image_metrics, sample_i, prediction>>
     ELSE LET s == samples[sample_i + 1]
          IN /\ written' = Append(written, prediction.path)
             /\ per_image_metrics' =
                  Append(per_image_metrics,
                         [key |-> s.key, split |-> s.split, pred |-> prediction.path,
                          scored |-> s.out_path # NoneVal])
             /\ sample_i' = sample_i + 1
             /\ prediction' = NoneVal
             /\ pc' = "loop"
             /\ UNCHANGED raised
  /\ UNCHANGED <<program, is_dir, dataset_dir, algorithm, custom_module, pairs, samples,
                 selected_algorithm, preds>>
  /\ UNCHANGED <<gridRest, callVars>>

\* run.py:332-334
VibeWriteModel ==
  /\ program = "run"
  /\ pc = "loop"
  /\ loop_done(sample_i, samples)
  /\ written' = Append(written, N_vibe_model_json)
  /\ pc' = "report"
  /\ UNCHANGED <<program, is_dir, dataset_dir, algorithm, custom_module, pairs, samples,
                 selected_algorithm, sample_i, prediction, per_image_metrics, raised,
                 preds>>
  /\ UNCHANGED <<gridRest, callVars>>

\* run.py:335
VibeWriteReport ==
  /\ program = "run"
  /\ pc = "report"
  /\ written' = Append(written, N_vibe_metrics_json)
  /\ pc' = "done"
  /\ UNCHANGED <<program, is_dir, dataset_dir, algorithm, custom_module, pairs, samples,
                 selected_algorithm, sample_i, prediction, per_image_metrics, raised,
                 preds>>
  /\ UNCHANGED <<gridRest, callVars>>

\* The grid search has not started
GridFresh ==
  /\ degree = 0
  /\ lam_i = 0
  /\ exps = <<>>
  /\ best = NoneVal
  /\ best_payload = NoneVal
  /\ selected = NoneVal
  /\ evaluated = <<>>
  /\ best_at = 0

InitRun ==
  /\ CallIdle
  /\ program \in {"create_lut", "run"}
  /\ is_dir \in BOOLEAN
  /\ dataset_dir \in SUBSET (IF program = "create_lut" THEN LutFiles ELSE VibeFiles)
  /\ ~is_dir => dataset_dir = {}
  /\ algorithm \in (IF program = "run" THEN {"auto", "poly_map", "cdf_match", "custom"}
                    ELSE {"none"})
  /\ custom_module \in (IF custom_algorithm_path \in dataset_dir
                        THEN {"dark_academia", "template", "user", "incomplete"}
                        ELSE {"none"})
  /\ max_degree \in (IF program = "create_lut" THEN {0, 1} ELSE {0})
  /\ lambdas = <<1>>
  /\ has_val = FALSE
  /\ pc = "main"
  /\ GridFresh
  /\ pairs = <<>>
  /\ samples = <<>>
  /\ selected_algorithm = "none"
  /\ sample_i = 0
  /\ prediction = NoneVal
  /\ per_image_metrics = <<>>
  /\ written = <<>>
  /\ raised = ""
  /\ preds = <<>>

NextRun ==
  \/ LutDiscover
  \/ LutLoad
  \/ DegreeLoop
  \/ EvaluateCandidate
  \/ ReadSelection
  \/ LutPredictPair
  \/ LutSaveModelNpz
  \/ LutWriteModelJson
  \/ LutWriteMetrics
  \/ VibeDiscover
  \/ VibeSelectAlgorithm
  \/ VibeTrain
  \/ VibePredict
  \/ VibeCheckAndSave
  \/ VibeWriteModel
  \/ VibeWriteReport

SpecRun == InitRun /\ [][NextRun]_vars

----------------------------------------------------------------------------
(* Claims about a run *)

\* The files of the directory that are style references by their name
StyleFiles(directory) ==
  {n \in directory :
     /\ lower(suffix_of(n)) \in IMAGE_EXTS
     /\ \/ endswith(stem_of(n), S_out)
        \/ startswith(stem_of(n), S_val) /\ endswith(drop_first(stem_of(n), 4), S_out)}

TrainIndices(seq) == {i \in 1..Len(seq) : seq[i].split = "train"}

\* The run is past training: it failed, or it is in the inference loop or after it
PastTraining == pc \in {"error", "loop", "check", "report", "done"}

\* C8: in the inference loop of the vibe trainer, after every prediction (of
\* the custom, the poly_map or the cdf_match variant) and before the prediction
\* is saved or scored, its shape is compared with the shape of the input; on a
\* mismatch the run aborts with an error, and no prediction file of that
\* sample, no model file and no metrics report is written.
C8_ShapeCheckedBeforeSave ==
  program = "run" =>
    /\ pc = "check" =>
         /\ prediction = preds[Len(preds)]
         /\ Len(preds) = sample_i + 1
         /\ Len(written) = sample_i
         /\ Len(per_image_metrics) = sample_i
    /\ \A i \in 1..Len(preds) :
         ~preds[i].same_shape =>
           /\ i = Len(preds)
           /\ pc \in {"check", "error"}
           /\ pc = "error" => raised = ShapeMismatch
           /\ \A k \in 1..Len(written) :
                written[k] \notin {preds[i].path, N_vibe_model_json, N_vibe_metrics_json}
           /\ \A k \in 1..Len(per_image_metrics) : per_image_metrics[k].pred # preds[i].path
    /\ raised = ShapeMismatch =>
         /\ pc = "error"
         /\ preds # <<>>
         /\ ~preds[Len(preds)].same_shape

\* A second sample's prediction had the wrong shape after the first was saved
C8_Witness ==
  /\ program = "run"
  /\ pc = "error"
  /\ raised = ShapeMismatch
  /\ Len(preds) = 2
  /\ Len(written) = 1

\* C9: insufficient data ends the run before any output exists: when the LUT
\* trainer finds no train-split pair, when poly_map is selected with no paired
\* train example, when cdf_match is trained with no reference image, or when
\* the train of dark_academia has no training input or no reference image, the
\* run raises an error and no prediction image, model file or metrics report
\* has been written.
C9_InsufficientDataBeforeOutput ==
  /\ (program = "create_lut" /\ pc # "main" /\ TrainIndices(pairs) = {}) =>
       /\ pc = "error"
       /\ pairs # <<>> => raised = NoTrainingPairs
       /\ raised # ""
       /\ written = <<>>
  /\ (program = "run" /\ PastTraining /\ selected_algorithm = "poly_map"
        /\ \A i \in TrainIndices(samples) : samples[i].out_path = NoneVal) =>
       /\ pc = "error"
       /\ samples # <<>> => raised = PolyMapNeedsPair
       /\ raised # ""
       /\ written = <<>>
  /\ (program = "run" /\ PastTraining /\ selected_algorithm = "cdf_match"
        /\ samples # <<>>
        /\ (\A i \in TrainIndices(samples) : samples[i].out_path = NoneVal)
        /\ parse_dataset(dataset_dir).standalone_out_refs = <<>>) =>
       /\ pc = "error"
       /\ raised = CdfMatchNeedsRef
       /\ written = <<>>
  /\ (program = "run" /\ PastTraining /\ selected_algorithm = "custom"
        /\ custom_module = "dark_academia"
        /\ samples # <<>>
        /\ (TrainIndices(samples) = {} \/ StyleFiles(dataset_dir) = {})) =>
       /\ pc = "error"
       /\ raised \in {NeedTrainingInput, NeedStyleReference}
       /\ written = <<>>
  /\ raised \in {NoTrainingPairs, PolyMapNeedsPair, CdfMatchNeedsRef, NeedTrainingInput,
                 NeedStyleReference} =>
       /\ pc = "error"
       /\ written = <<>>
       /\ per_image_metrics = <<>>

\* The LUT trainer found pairs, all of the val split, and raised
C9_Witness ==
  /\ program = "create_lut"
  /\ pc = "error"
  /\ raised = NoTrainingPairs
  /\ pairs # <<>>
  /\ written = <<>>

----------------------------------------------------------------------------
(* Claims about cropping and subsampling *)

\* The window of img that starts after oy rows and ox columns
IsWindowAt(win, img, oy, ox) ==
  \A y \in 1..Len(win) : \A x \in 1..Len(win[1]) : win[y][x] = img[oy + y][ox + x]

\* win is a window of img, and what is trimmed before it and after it differs
\* by at most one, in rows and in columns
CentredWindow(win, img) ==
  \E oy \in 0..(Len(img) - Len(win)), ox \in 0..(Len(img[1]) - Len(win[1])) :
    /\ IsWindowAt(win, img, oy, ox)
    /\ Abs(oy - (Len(img) - Len(win) - oy)) <= 1
    /\ Abs(ox - (Len(img[1]) - Len(win[1]) - ox)) <= 1

\* C11: for two images of sizes (Ha, Wa) and (Hb, Wb), center_crop_pair returns
\* two images of size (min(Ha, Hb), min(Wa, Wb)), each a window of its original
\* whose trimmed rows and columns before and after differ by at most one, also
\* when one image is taller and the other is wider.
C11_CenterCropIsCentredMinimum ==
  fn = "center_crop_pair" =>
    LET h == Min2(Len(args[1]), Len(args[2]))
        w == Min2(Len(args[1][1]), Len(args[2][1]))
    IN \A k \in 1..2 :
         /\ Len(ret[k]) = h
         /\ \A y \in 1..h : Len(ret[k][y]) = w
         /\ CentredWindow(ret[k], args[k])

\* The first image is taller by three rows, the second wider by two columns
C11_Witness ==
  /\ fn = "center_crop_pair"
  /\ Len(args[1]) = Len(args[2]) + 3
  /\ Len(args[2][1]) = Len(args[1][1]) + 2
  /\ ret[1][1][1] = <<2, 1, 0>>
  /\ ret[2][1][1] = <<1, 2, 1>>

\* r is an integer nearest to num / den
NearestInteger(r, num, den) == 2 * Abs(r * den - num) <= den

\* The length max(1, round(n * frac)) of a side of n
InnerLength(len, n, frac) ==
  /\ len >= 1
  /\ \/ NearestInteger(len, n * frac, PerMille)
     \/ len = 1 /\ NearestInteger(0, n * frac, PerMille)

\* C13: for an image of h x w (h, w >= 1) and a fraction frac in (0, 1],
\* crop_inner_region returns a non-empty contiguous window of
\* max(1, round(h * frac)) rows and max(1, round(w * frac)) columns that lies
\* inside the image and starts at row floor((h - rows) / 2) and column
\* floor((w - cols) / 2), so the margins on opposite sides differ by at most one.
C13_CropInnerRegionIsCentredWindow ==
  fn = "crop_inner_region" =>
    LET img == args[1]
        h == Len(img)
        w == Len(img[1])
        rows == Len(ret)
        cols == Len(ret[1])
        y0 == (h - rows) \div 2
        x0 == (w - cols) \div 2
    IN /\ InnerLength(rows, h, args[2])
       /\ InnerLength(cols, w, args[2])
       /\ \A y \in 1..rows : Len(ret[y]) = cols
       /\ rows <= h /\ cols <= w
       /\ y0 >= 0 /\ x0 >= 0
       /\ IsWindowAt(ret, img, y0, x0)
       /\ (h - rows - y0) - y0 \in {0, 1}
       /\ (w - cols - x0) - x0 \in {0, 1}

\* The 6 x 8 image of the test at frac 0.5: rows 1..3 and columns 2..5 (from 0)
C13_Witness ==
  /\ fn = "crop_inner_region"
  /\ Len(args[1]) = 6
  /\ Len(args[1][1]) = 8
  /\ args[2] = 500
  /\ Len(ret) = 3
  /\ Len(ret[1]) = 4
  /\ ret[1][1] = <<2, 3, 0>>

\* The rows trimmed above and below, and the columns trimmed left and right, of
\* a window of img whose first pixel carries its coordinates in img
Border(win, img) ==
  [top |-> win[1][1][1] - 1,
   bottom |-> Len(img) - Len(win) - (win[1][1][1] - 1),
   left |-> win[1][1][2] - 1,
   right |-> Len(img[1]) - Len(win[1]) - (win[1][1][2] - 1)]

\* C12 (as stated): the border-excluded metrics of the LUT trainer exclude a
\* border of 10% of the image on each side before scoring, retaining the
\* centred 90% region of the prediction and of the target.
C12_TenPercentBorderEachSide ==
  (fn = "eval_crop" /\ Len(args[1]) % 10 = 0 /\ Len(args[1][1]) % 10 = 0) =>
    \A k \in 1..2 :
      LET img == args[k]
          win == IF k = 1 THEN ret.pred_eval ELSE ret.tgt_eval
          b == Border(win, img)
      IN /\ IsWindowAt(win, img, b.top, b.left)
         /\ 10 * b.top = Len(img) /\ 10 * b.bottom = Len(img)
         /\ 10 * b.left = Len(img[1]) /\ 10 * b.right = Len(img[1])
         /\ 10 * Len(win) = 9 * Len(img)
         /\ 10 * Len(win[1]) = 9 * Len(img[1])

\* C12 (amended): the border-excluded metrics of the LUT trainer retain the
\* centred 90% region of the prediction and of the target, which excludes a
\* border of 5% of the image on each side: the retained rows and columns are
\* the side times 0.9 rounded to an integer (at least one), the window is
\* centred, each border is within a quarter of a row or column of 5% of the
\* side up to the one row or column of an odd remainder, and it is exactly 5%
\* on each side when the side is a multiple of 20.
C12_FivePercentBorderEachSide ==
  fn = "eval_crop" =>
    \A k \in 1..2 :
      LET img == args[k]
          win == IF k = 1 THEN ret.pred_eval ELSE ret.tgt_eval
          b == Border(win, img)
          h == Len(img)
          w == Len(img[1])
      IN /\ IsWindowAt(win, img, b.top, b.left)
         /\ InnerLength(Len(win), h, DefaultFrac)
         /\ InnerLength(Len(win[1]), w, DefaultFrac)
         /\ b.top >= 0 /\ b.bottom - b.top \in {0, 1}
         /\ b.left >= 0 /\ b.right - b.left \in {0, 1}
         /\ 20 * b.top <= h + 5 /\ 20 * b.bottom >= h - 5
         /\ 20 * b.left <= w + 5 /\ 20 * b.right >= w - 5
         /\ h % 20 = 0 => (20 * b.top = h /\ 20 * b.bottom = h /\ 10 * Len(win) = 9 * h)
         /\ w % 20 = 0 => (20 * b.left = w /\ 20 * b.right = w /\ 10 * Len(win[1]) = 9 * w)

\* A 20 x 20 prediction and target: 18 x 18 are scored, one row and one column
\* are left out on each side
C12_Witness ==
  /\ fn = "eval_crop"
  /\ Len(args[1]) = 20
  /\ Len(args[1][1]) = 20
  /\ Len(ret.pred_eval) = 18
  /\ Len(ret.tgt_eval[1]) = 18
  /\ ret.pred_eval[1][1] = <<2, 2, 0>>
  /\ ret.tgt_eval[1][1] = <<2, 2, 1>>

----------------------------------------------------------------------------
(* Claims about the dark_academia model *)

\* C15: for every p10, p50, p90 of the reference luma in [0, 1], the output
\* anchors of the dark_academia train satisfy shadow in [0.02, 0.20],
\* shadow + 0.05 <= midtone <= 0.48 and midtone + 0.08 <= highlight <= 0.86,
\* hence shadow < midtone < highlight.
C15_AnchorsInOrderedBands ==
  fn = "train_anchors" =>
    LET shadow == ret[1]
        midtone == ret[2]
        highlight == ret[3]
    IN /\ 20 <= shadow /\ shadow <= 200
       /\ shadow + 50 <= midtone /\ midtone <= 480
       /\ midtone + 80 <= highlight /\ highlight <= 860
       /\ shadow < midtone /\ midtone < highlight

\* Percentiles out of order: a bright p10 and dark p50 and p90, where the
\* anchors are set by the bands alone
C15_Witness ==
  /\ fn = "train_anchors"
  /\ args = <<PerMille, 0, 0>>
  /\ ret = <<200, 250, 330>>

\* The coordinates (row, column) that two noise arrays both hold
SharedCoords(a, b) ==
  {<<y, x>> \in (1..3) \X (1..3) :
     y <= Len(a) /\ y <= Len(b) /\ x <= Len(a[1]) /\ x <= Len(b[1])}

IsPredFile(n) == endswith(n, S_pred \o E_jpg)

\* The files that persist the model, and the metrics report, of the program
ModelFiles ==
  IF program = "create_lut" THEN {N_lut_model_npz, N_lut_model_json}
  ELSE {N_vibe_model_json}

ReportFile == IF program = "create_lut" THEN N_metrics_json ELSE N_vibe_metrics_json

\* C17 (as stated): in a run the model is persisted (lut_model.npz and
\* lut_model.json, or vibe_model.json) before the model is applied to the images
\* and prediction files are written, and the metrics report is produced last.
C17_ModelPersistedBeforePredictions ==
  /\ \A i \in 1..Len(written) :
       IsPredFile(written[i]) =>
         \A m \in ModelFiles : \E j \in 1..(i - 1) : written[j] = m
  /\ \A i \in 1..Len(written) : written[i] = ReportFile => i = Len(written)

\* C17 (amended): in a run the prediction files are written first, one per
\* sample in the order of the samples; the model is persisted after the
\* inference loop (lut_model.npz, then lut_model.json in the LUT trainer,
\* vibe_model.json in the vibe trainer), and the metrics report is produced
\* last.
C17_PredictionsThenModelThenReport ==
  /\ \A i \in 1..Len(written) : \A j \in 1..Len(written) :
       (IsPredFile(written[i]) /\ written[j] \in ModelFiles \cup {ReportFile}) => i < j
  /\ \A i \in 1..Len(written) : \A j \in 1..Len(written) :
       (written[i] \in ModelFiles /\ written[j] = ReportFile) => i < j
  /\ \A i \in 1..Len(written) : \A j \in 1..Len(written) :
       (written[i] = N_lut_model_npz /\ written[j] = N_lut_model_json) => i < j
  /\ \A i \in 1..Len(written) :
       written[i] = ReportFile => (i = Len(written) /\ pc = "done")
  /\ pc = "done" =>
       LET n == Len(written)
       IN IF program = "create_lut"
          THEN /\ n = Len(pairs) + 3
               /\ \A i \in 1..Len(pairs) : written[i] = lut_pred_path(pairs[i])
               /\ written[n - 2] = N_lut_model_npz
               /\ written[n - 1] = N_lut_model_json
               /\ written[n] = N_metrics_json
          ELSE /\ n = Len(samples) + 2
               /\ \A i \in 1..Len(samples) : written[i] = vibe_pred_path(samples[i])
               /\ written[n - 1] = N_vibe_model_json
               /\ written[n] = N_vibe_metrics_json

\* A finished run of the vibe trainer over two samples
C17_Witness ==
  /\ program = "run"
  /\ pc = "done"
  /\ Len(samples) = 2
  /\ Len(written) = 4
  /\ IsPredFile(written[1]) /\ IsPredFile(written[2])
  /\ written[3] = N_vibe_model_json
  /\ written[4] = N_vibe_metrics_json

\* The prediction file paths of the discovered samples, in sample order
PredPaths ==
  IF program = "create_lut"
  THEN [i \in 1..Len(pairs) |-> lut_pred_path(pairs[i])]
  ELSE [i \in 1..Len(samples) |-> vibe_pred_path(samples[i])]

\* No two positions of the sequence hold the same value
Distinct(seq) == \A i \in 1..Len(seq) : \A j \in 1..Len(seq) : i # j => seq[i] # seq[j]

\* C18: within one run, for any directory contents, no two discovered samples
\* are assigned the same prediction file path, so no prediction written in the
\* inference loop overwrites the prediction of another sample; in the LUT
\* trainer ('<key>_pred.jpg', also when <key>_in.jpg and <key>_in.jpeg both
\* exist) and in the vibe trainer ('[val_]<key>_pred.jpg').
C18_PredictionPathsDistinct ==
  /\ Distinct(PredPaths)
  /\ Distinct(written)

\* The vibe trainer's half of C18: parse_dataset keys its samples by
\* (split, key), so their prediction paths differ.
VibePredictionPathsDistinct ==
  program = "run" => (Distinct(PredPaths) /\ Distinct(written))

\* The LUT trainer has written the prediction of a second pair over the
\* prediction of a first pair with the same key.
LutPredictionOverwritten ==
  /\ program = "create_lut"
  /\ \E i \in 1..Len(written) : \E j \in 1..Len(written) :
       i < j /\ written[i] = written[j] /\ IsPredFile(written[i])

====
